---- MODULE Spec2Model ----
(***************************************************************************)
(* A model of the MySQL connector of the sql-connector crate:              *)
(*   database/mysql.rs          Mysql::with_transaction, Mysql::with_conn, *)
(*                              Transaction::{write, truncate, raw},       *)
(*                              ToSqlRow::to_prisma_row                    *)
(*   related_nodes/base_query.rs RelatedNodesBaseQuery::new                *)
(*                                                                         *)
(* Four specifications share the module:                                   *)
(*   Spec        threads calling with_transaction on one Mysql (the pool)  *)
(*   SpecTx      the statements one Transaction issues (write, truncate)   *)
(*   SpecDecode  to_prisma_row applied to raw rows                         *)
(*   SpecQuery   RelatedNodesBaseQuery::new applied to query arguments     *)
(***************************************************************************)
EXTENDS Integers, Sequences, FiniteSets, TLC

\* ------------------------------------------------------------------ bounds
\* Threads calling with_transaction concurrently.
NumThreads == 2
\* The pool's connection limit (e.limit() / s.limit(), a configuration value).
PoolLimit == 1
\* Longest table list MutationBuilder::truncate_tables yields.
MaxTables == 3
\* Largest identifier the database generates.
MaxId == 2
\* Longest list of type identifiers (columns of a row).
MaxCols == 2
\* Longest batch of parent identifiers.
MaxIds == 2

VARIABLES
    \* Spec: one entry per thread
    pc,             \* where the thread is in with_transaction
    conn,           \* the PooledConn the thread holds, 0 when none
    tx,             \* the database transaction of the current call
    written,        \* the body has written inside the transaction
    lastOp,         \* the last Transaction method the body called
    bodyResult,     \* what the closure f returned
    closureResult,  \* what the closure handed to with_conn returned
    result,         \* what with_transaction returned
    commitIssued,   \* tx.commit() was called in the current call
    \* SpecTx: one Transaction
    op,             \* the Transaction method running: "write" or "truncate"
    tpc,            \* where the Transaction is inside that method
    tables,         \* MutationBuilder::truncate_tables(project)
    idx,            \* position of the delete loop
    log,            \* the statements issued by the current method, in order
    deleteErr,      \* index in log of the delete that failed, 0 when none
    tres,           \* what the method returned
    \* SpecDecode
    dIdents, dRow, dOut,
    \* SpecQuery
    qIn, qOut

lifecycleVars == <<pc, conn, tx, written, lastOp, bodyResult, closureResult, result, commitIssued>>
txVars == <<op, tpc, tables, idx, log, deleteErr, tres>>
decodeVars == <<dIdents, dRow, dOut>>
queryVars == <<qIn, qOut>>
vars == <<lifecycleVars, txVars, decodeVars, queryVars>>

\* ------------------------------------------------------- idle sub-states
LifecycleIdle ==
    /\ pc = [t \in 1..NumThreads |-> "idle"]
    /\ conn = [t \in 1..NumThreads |-> 0]
    /\ tx = [t \in 1..NumThreads |-> "none"]
    /\ written = [t \in 1..NumThreads |-> FALSE]
    /\ lastOp = [t \in 1..NumThreads |-> "none"]
    /\ bodyResult = [t \in 1..NumThreads |-> "none"]
    /\ closureResult = [t \in 1..NumThreads |-> "none"]
    /\ result = [t \in 1..NumThreads |-> "none"]
    /\ commitIssued = [t \in 1..NumThreads |-> FALSE]

NoResult == [tag |-> "none", v |-> 0]

TxIdle ==
    /\ op = "none"
    /\ tpc = "idle"
    /\ tables = <<>>
    /\ idx = 0
    /\ log = <<>>
    /\ deleteErr = 0
    /\ tres = NoResult

DecodeIdle ==
    /\ dIdents = <<>>
    /\ dRow = <<>>
    /\ dOut = [tag |-> "pending", values |-> <<>>]

QueryIdle ==
    /\ qIn = [tag |-> "none"]
    /\ qOut = [tag |-> "pending"]

\* ===================================================================
\* Spec: Mysql::with_transaction and Mysql::with_conn on a shared pool
\* ===================================================================
Threads == 1..NumThreads
\* my::Pool::new_manual(1, limit, opts): at most `limit` connections exist.
Conns == 1..PoolLimit
Leased == {conn[t] : t \in Threads} \ {0}
Free == Conns \ Leased

\* The lifecycle actions leave the other specifications' state alone.
LifecycleOnly == UNCHANGED <<txVars, decodeVars, queryVars>>

\* A caller enters with_transaction, which enters with_conn.
with_transaction(t) ==
    /\ pc[t] \in {"idle", "done"}
    /\ LifecycleOnly
    /\ pc' = [pc EXCEPT ![t] = "get_conn"]
    /\ tx' = [tx EXCEPT ![t] = "none"]
    /\ written' = [written EXCEPT ![t] = FALSE]
    /\ lastOp' = [lastOp EXCEPT ![t] = "none"]
    /\ bodyResult' = [bodyResult EXCEPT ![t] = "none"]
    /\ closureResult' = [closureResult EXCEPT ![t] = "none"]
    /\ result' = [result EXCEPT ![t] = "none"]
    /\ commitIssued' = [commitIssued EXCEPT ![t] = FALSE]
    /\ UNCHANGED conn

\* A pool that hands out a connection whether or not a thread holds it.
get_conn_ok_mut(t) ==
    /\ pc[t] = "get_conn"
    /\ LifecycleOnly
    /\ \E c \in Conns :
        conn' = [conn EXCEPT ![t] = c]
    /\ pc' = [pc EXCEPT ![t] = "start_transaction"]
    /\ UNCHANGED <<tx, written, lastOp, bodyResult, closureResult, result, commitIssued>>

\* self.pool.get_conn() hands out a connection no one holds; with none free
\* the call blocks (the action is not enabled).
get_conn_ok(t) ==
    /\ pc[t] = "get_conn"
    /\ LifecycleOnly
    /\ \E c \in Free :
        conn' = [conn EXCEPT ![t] = c]
    /\ pc' = [pc EXCEPT ![t] = "start_transaction"]
    /\ UNCHANGED <<tx, written, lastOp, bodyResult, closureResult, result, commitIssued>>

\* self.pool.get_conn()? fails: with_conn returns the error, f never runs.
get_conn_err(t) ==
    /\ pc[t] = "get_conn"
    /\ LifecycleOnly
    /\ pc' = [pc EXCEPT ![t] = "done"]
    /\ result' = [result EXCEPT ![t] = "Err_conn"]
    /\ UNCHANGED <<conn, tx, written, lastOp, bodyResult, closureResult, commitIssued>>

\* conn.start_transaction(true, None, None)? succeeds: f runs next.
start_transaction_ok(t) ==
    /\ pc[t] = "start_transaction"
    /\ LifecycleOnly
    /\ tx' = [tx EXCEPT ![t] = "open"]
    /\ pc' = [pc EXCEPT ![t] = "body"]
    /\ UNCHANGED <<conn, written, lastOp, bodyResult, closureResult, result, commitIssued>>

\* conn.start_transaction(..)? fails: the closure returns the error.
start_transaction_err(t) ==
    /\ pc[t] = "start_transaction"
    /\ LifecycleOnly
    /\ closureResult' = [closureResult EXCEPT ![t] = "Err_start"]
    /\ pc' = [pc EXCEPT ![t] = "with_conn_return"]
    /\ UNCHANGED <<conn, tx, written, lastOp, bodyResult, result, commitIssued>>

\* The body f: a statement through the Transaction succeeds.
body_write_ok(t) ==
    /\ pc[t] = "body"
    /\ LifecycleOnly
    /\ written' = [written EXCEPT ![t] = TRUE]
    /\ lastOp' = [lastOp EXCEPT ![t] = "write"]
    /\ UNCHANGED <<pc, conn, tx, bodyResult, closureResult, result, commitIssued>>

\* The body f: a statement fails and f returns its error.
body_write_err(t) ==
    /\ pc[t] = "body"
    /\ LifecycleOnly
    /\ lastOp' = [lastOp EXCEPT ![t] = "write"]
    /\ bodyResult' = [bodyResult EXCEPT ![t] = "Err_query"]
    /\ pc' = [pc EXCEPT ![t] = "check"]
    /\ UNCHANGED <<conn, tx, written, closureResult, result, commitIssued>>

\* The body f calls Transaction::raw: unimplemented!() panics. The panic
\* unwinds through with_transaction and with_conn: tx is dropped uncommitted
\* (rolled back), conn is dropped (back in the pool), nothing is returned.
raw(t) ==
    /\ pc[t] = "body"
    /\ LifecycleOnly
    /\ lastOp' = [lastOp EXCEPT ![t] = "raw"]
    /\ tx' = [tx EXCEPT ![t] = "rolled_back"]
    /\ conn' = [conn EXCEPT ![t] = 0]
    /\ pc' = [pc EXCEPT ![t] = "panicked"]
    /\ UNCHANGED <<written, bodyResult, closureResult, result, commitIssued>>

\* The body f returns: Ok(T), or an error of its own.
body_return(t) ==
    /\ pc[t] = "body"
    /\ LifecycleOnly
    /\ \E r \in {"Ok", "Err_body"} :
        bodyResult' = [bodyResult EXCEPT ![t] = r]
    /\ pc' = [pc EXCEPT ![t] = "check"]
    /\ UNCHANGED <<conn, tx, written, lastOp, closureResult, result, commitIssued>>

\* The end of the closure with the commit issued whatever f returned.
with_transaction_commit_mut(t) ==
    /\ pc[t] = "check"
    /\ LifecycleOnly
    /\ commitIssued' = [commitIssued EXCEPT ![t] = TRUE]
    /\ \E committed \in BOOLEAN :
        /\ tx' = [tx EXCEPT ![t] = IF committed THEN "committed" ELSE "rolled_back"]
        /\ closureResult' = [closureResult EXCEPT ![t] =
                                IF committed THEN bodyResult[t] ELSE "Err_commit"]
    /\ pc' = [pc EXCEPT ![t] = "with_conn_return"]
    /\ UNCHANGED <<conn, written, lastOp, bodyResult, result>>

\* if result.is_ok() { tx.commit()?; }  result
\* tx goes out of scope at the end of the closure: uncommitted, it rolls back.
with_transaction_commit(t) ==
    /\ pc[t] = "check"
    /\ LifecycleOnly
    /\ IF bodyResult[t] = "Ok"
       THEN /\ commitIssued' = [commitIssued EXCEPT ![t] = TRUE]
            /\ \E committed \in BOOLEAN :
                /\ tx' = [tx EXCEPT ![t] = IF committed THEN "committed" ELSE "rolled_back"]
                /\ closureResult' = [closureResult EXCEPT ![t] =
                                        IF committed THEN bodyResult[t] ELSE "Err_commit"]
       ELSE /\ tx' = [tx EXCEPT ![t] = "rolled_back"]
            /\ closureResult' = [closureResult EXCEPT ![t] = bodyResult[t]]
            /\ UNCHANGED commitIssued
    /\ pc' = [pc EXCEPT ![t] = "with_conn_return"]
    /\ UNCHANGED <<conn, written, lastOp, bodyResult, result>>

\* with_conn handing the connection back only after a successful closure.
with_conn_return_mut(t) ==
    /\ pc[t] = "with_conn_return"
    /\ LifecycleOnly
    /\ conn' = [conn EXCEPT ![t] = IF closureResult[t] = "Ok" THEN 0 ELSE @]
    /\ result' = [result EXCEPT ![t] = closureResult[t]]
    /\ pc' = [pc EXCEPT ![t] = "done"]
    /\ UNCHANGED <<tx, written, lastOp, bodyResult, closureResult, commitIssued>>

\* let result = f(&mut conn); result   -- conn is dropped when with_conn
\* returns, whatever f returned, and the drop hands it back to the pool.
with_conn_return(t) ==
    /\ pc[t] = "with_conn_return"
    /\ LifecycleOnly
    /\ conn' = [conn EXCEPT ![t] = 0]
    /\ result' = [result EXCEPT ![t] = closureResult[t]]
    /\ pc' = [pc EXCEPT ![t] = "done"]
    /\ UNCHANGED <<tx, written, lastOp, bodyResult, closureResult, commitIssued>>

Init ==
    /\ LifecycleIdle
    /\ TxIdle
    /\ DecodeIdle
    /\ QueryIdle

Next ==
    \/ \E t \in Threads : with_transaction(t)
    \/ \E t \in Threads : get_conn_ok(t)
    \/ \E t \in Threads : get_conn_err(t)
    \/ \E t \in Threads : start_transaction_ok(t)
    \/ \E t \in Threads : start_transaction_err(t)
    \/ \E t \in Threads : body_write_ok(t)
    \/ \E t \in Threads : body_write_err(t)
    \/ \E t \in Threads : raw(t)
    \/ \E t \in Threads : body_return(t)
    \/ \E t \in Threads : with_transaction_commit(t)
    \/ \E t \in Threads : with_conn_return(t)

Spec == Init /\ [][Next]_vars

\* ===================================================================
\* SpecTx: the statements one my::Transaction issues
\* ===================================================================
TxOnly == UNCHANGED <<lifecycleVars, decodeVars, queryVars>>

\* The tables of a project, in the order MutationBuilder::truncate_tables
\* lists them: a list without repetition.
TableLists ==
    {s \in UNION {[1..n -> 1..MaxTables] : n \in 0..MaxTables} :
        \A i, j \in DOMAIN s : i # j => s[i] # s[j]}

\* What the server answers to a statement: a failure, or success with the
\* connection's last_insert_id, which is 0 unless the statement generated one.
Outcomes(stmt) ==
    {[ok |-> FALSE, id |-> 0]} \cup
    IF stmt = "INSERT_AUTO"
    THEN {[ok |-> TRUE, id |-> i] : i \in 1..MaxId}
    ELSE {[ok |-> TRUE, id |-> 0]}

Mutations == {"INSERT_AUTO", "INSERT", "UPDATE", "DELETE"}

\* Results: Ok(Some(id)), Ok(()), and Err(e) with e named by the
\* position in log of the statement that raised it.
OkSome(id) == [tag |-> "OkSome", v |-> id]
OkUnit == [tag |-> "Ok", v |-> 0]
Err(n) == [tag |-> "Err", v |-> n]

\* Transaction::write: prepare(&sql)?, execute(params)?, then
\* Ok(Some(GraphqlId::from(result.last_insert_id()))) for every statement.
write(out, n) ==
    IF ~out.ok THEN Err(n) ELSE OkSome(out.id)

\* An entry of the log: the statement, its table (0: none), the server's
\* answer, and what write returned for it.
Issued(stmt, table, out, n) ==
    [stmt |-> stmt, table |-> table, ok |-> out.ok, id |-> out.id, ret |-> write(out, n)]

\* The body calls tx.write(q) with a mutation q.
tx_write ==
    /\ tpc \in {"idle", "done"}
    /\ TxOnly
    /\ \E q \in Mutations : \E out \in Outcomes(q) :
        /\ log' = <<Issued(q, 0, out, 1)>>
        /\ tres' = write(out, 1)
    /\ op' = "write"
    /\ tpc' = "done"
    /\ tables' = <<>>
    /\ idx' = 0
    /\ deleteErr' = 0

\* truncate: self.write(Query::from("SET FOREIGN_KEY_CHECKS=0"))?;
truncate ==
    /\ tpc \in {"idle", "done"}
    /\ TxOnly
    /\ op' = "truncate"
    /\ \E tbls \in TableLists : tables' = tbls
    /\ deleteErr' = 0
    /\ \E out \in Outcomes("SET FOREIGN_KEY_CHECKS=0") :
        /\ log' = <<Issued("SET FOREIGN_KEY_CHECKS=0", 0, out, 1)>>
        /\ IF out.ok
           THEN /\ tpc' = "loop"
                /\ idx' = 1
                /\ tres' = NoResult
           ELSE /\ tpc' = "done"
                /\ idx' = 0
                /\ tres' = write(out, 1)

\* The delete loop without its early return: a failing delete is noted and
\* the loop goes on.
truncate_delete_continue ==
    /\ tpc = "loop"
    /\ idx <= Len(tables)
    /\ TxOnly
    /\ \E out \in Outcomes("DELETE") :
        /\ log' = Append(log, Issued("DELETE", tables[idx], out, Len(log) + 1))
        /\ deleteErr' = IF out.ok THEN deleteErr ELSE Len(log) + 1
    /\ idx' = idx + 1
    /\ UNCHANGED <<op, tpc, tables, tres>>

\* The delete loop without its cleanup: a failing delete returns at once.
truncate_delete_no_cleanup ==
    /\ tpc = "loop"
    /\ idx <= Len(tables)
    /\ TxOnly
    /\ \E out \in Outcomes("DELETE") :
        /\ log' = Append(log, Issued("DELETE", tables[idx], out, Len(log) + 1))
        /\ IF out.ok
           THEN /\ idx' = idx + 1
                /\ UNCHANGED <<tpc, deleteErr, tres>>
           ELSE /\ deleteErr' = Len(log) + 1
                /\ tres' = Err(Len(log) + 1)
                /\ tpc' = "done"
                /\ UNCHANGED idx
    /\ UNCHANGED <<op, tables>>

\* for delete in MutationBuilder::truncate_tables(project) {
\*     if let Err(e) = self.delete(delete) { ... }
truncate_delete ==
    /\ tpc = "loop"
    /\ idx <= Len(tables)
    /\ TxOnly
    /\ \E out \in Outcomes("DELETE") :
        /\ log' = Append(log, Issued("DELETE", tables[idx], out, Len(log) + 1))
        /\ IF out.ok
           THEN /\ idx' = idx + 1
                /\ UNCHANGED <<tpc, deleteErr>>
           ELSE /\ deleteErr' = Len(log) + 1
                /\ tpc' = "cleanup"
                /\ UNCHANGED idx
    /\ UNCHANGED <<op, tables, tres>>

\*     ... { self.write(Query::from("SET FOREIGN_KEY_CHECKS=1"))?; return Err(e); }
truncate_cleanup ==
    /\ tpc = "cleanup"
    /\ TxOnly
    /\ \E out \in Outcomes("SET FOREIGN_KEY_CHECKS=1") :
        /\ log' = Append(log, Issued("SET FOREIGN_KEY_CHECKS=1", 0, out, Len(log) + 1))
        /\ tres' = IF out.ok THEN Err(deleteErr) ELSE write(out, Len(log) + 1)
    /\ tpc' = "done"
    /\ UNCHANGED <<op, tables, idx, deleteErr>>

\* self.write(Query::from("SET FOREIGN_KEY_CHECKS=1"))?;  Ok(())
truncate_enable ==
    /\ tpc = "loop"
    /\ idx > Len(tables)
    /\ TxOnly
    /\ \E out \in Outcomes("SET FOREIGN_KEY_CHECKS=1") :
        /\ log' = Append(log, Issued("SET FOREIGN_KEY_CHECKS=1", 0, out, Len(log) + 1))
        /\ tres' = IF out.ok THEN OkUnit ELSE write(out, Len(log) + 1)
    /\ tpc' = "done"
    /\ UNCHANGED <<op, tables, idx, deleteErr>>

NextTx ==
    \/ tx_write
    \/ truncate
    \/ truncate_delete
    \/ truncate_cleanup
    \/ truncate_enable

SpecTx == Init /\ [][NextTx]_vars

\* ===================================================================
\* SpecDecode: ToSqlRow::to_prisma_row for my::Row
\* ===================================================================
TypeIdentifiers ==
    {"String", "GraphQLID", "Relation", "Float", "Int", "Boolean", "Enum",
     "Json", "UUID", "DateTime"}

\* A raw column, seen from the type it is read as: SQL NULL, a value the
\* driver converts to that type (for Json: text that parses), or a value it
\* does not (for Json: text that does not parse).
RawValues == {"NULL", "Convertible", "Inconvertible"}

Null == [variant |-> "Null", of |-> "NULL"]
Value(variant, value) == [variant |-> variant, of |-> value]
ConvertOk(v) == [tag |-> "Ok", val |-> v]
FromValueError == [tag |-> "Err", val |-> Value("FromValueError", "Inconvertible")]

\* match row.get_opt(i)? { Some(val) => <variant>(val), None => PrismaValue::Null }
get_opt(value, variant) ==
    CASE value = "Inconvertible" -> FromValueError
      [] value = "NULL" -> ConvertOk(Null)
      [] OTHER -> ConvertOk(Value(variant, value))

\* convert with NULL decoded to the zero of the numeric types.
convert_mut(value, typid) ==
    IF value = "NULL" /\ typid \in {"Int", "Float", "Boolean"}
    THEN ConvertOk(Value(typid, "zero"))
    ELSE get_opt(value, typid)

\* fn convert(row, i, typid): one arm per type identifier; the first UUID arm
\* is the one a UUID reaches, and its Some arm names Uuid::from_slice without
\* applying it to val.
convert(value, typid) ==
    CASE typid = "String" -> get_opt(value, "String")
      [] typid \in {"GraphQLID", "Relation"} -> get_opt(value, "GraphqlId")
      [] typid = "Float" -> get_opt(value, "Float")
      [] typid = "Int" -> get_opt(value, "Int")
      [] typid = "Boolean" -> get_opt(value, "Boolean")
      [] typid = "Enum" -> get_opt(value, "Enum")
      [] typid = "Json" -> get_opt(value, "Json")
      [] typid = "UUID" ->
            IF value = "Convertible"
            THEN ConvertOk(Value("Uuid::from_slice", "unapplied"))
            ELSE get_opt(value, "Uuid")
      [] typid = "DateTime" -> get_opt(value, "DateTime")

\* for (i, typid) in idents.into_iter().enumerate() {
\*     row.values.push(convert(self, i, typid)?);
\* }
RECURSIVE push_values(_, _, _, _)
push_values(row, idents, i, values) ==
    IF i > Len(idents)
    THEN [tag |-> "Ok", values |-> values]
    ELSE LET c == convert(row[i], idents[i])
         IN IF c.tag = "Err"
            THEN [tag |-> "Err", values |-> <<c.val>>]
            ELSE push_values(row, idents, i + 1, Append(values, c.val))

\* let mut row = SqlRow::default(); ...; Ok(row)
to_prisma_row(row, idents) == push_values(row, idents, 1, <<>>)

\* A row of the result set and the type identifiers it is read with: one raw
\* column per identifier.
InitDecode ==
    /\ LifecycleIdle
    /\ TxIdle
    /\ QueryIdle
    /\ \E n \in 0..MaxCols :
        /\ dIdents \in [1..n -> TypeIdentifiers]
        /\ dRow \in [1..n -> RawValues]
    /\ dOut = [tag |-> "pending", values |-> <<>>]

decode ==
    /\ dOut.tag = "pending"
    /\ dOut' = to_prisma_row(dRow, dIdents)
    /\ UNCHANGED <<dIdents, dRow, lifecycleVars, txVars, queryVars>>

NextDecode == decode

SpecDecode == InitDecode /\ [][NextDecode]_vars

\* ===================================================================
\* SpecQuery: RelatedNodesBaseQuery::new
\* ===================================================================
NoCondition == [op |-> "NoCondition"]
In(col, ids) == [op |-> "In", col |-> col, ids |-> ids]
And(l, r) == [op |-> "And", l |-> l, r |-> r]
Equals(l, r) == [op |-> "Equals", left |-> l, right |-> r]
Column(name, table) == [name |-> name, table |-> table]

\* from_field.relation_column() / opposite_column(), then .table(Relation::TABLE_ALIAS)
relation_column == Column("relation_column", "Relation::TABLE_ALIAS")
opposite_column == Column("opposite_column", "Relation::TABLE_ALIAS")

\* CursorCondition::build(&query_arguments, model): no condition without a
\* cursor, else a condition tree on the cursor's row.
CursorCondition_build(args) ==
    IF args.after = 0 /\ args.before = 0
    THEN NoCondition
    ELSE [op |-> "Cursor", after |-> args.after, before |-> args.before]

\* query_arguments.filter.map(|f| f.aliased_cond(None))
\*     .unwrap_or(ConditionTree::NoCondition)
base_condition(args) ==
    IF args.filter = "None"
    THEN NoCondition
    ELSE [op |-> "Filter", filter |-> args.filter]

\* The conditions with the cursor condition left out.
conditions_mut(from_node_ids, args) ==
    And(In(relation_column, from_node_ids), base_condition(args))

\* relation_column.in_selection(from_node_ids.to_owned())
\*     .and(base_condition).and(cursor_condition)
conditions(from_node_ids, args) ==
    And(And(In(relation_column, from_node_ids), base_condition(args)),
        CursorCondition_build(args))

\* RelatedNodesBaseQuery::new: the select on the related model's table with
\* the selected columns, .so_that(conditions), .inner_join(join).
new(from_node_ids, args) ==
    [tag |-> "RelatedNodesBaseQuery",
     query |->
        [from |-> "related_model",
         columns |-> <<"selected_fields.columns">>,
         conditions |-> conditions(from_node_ids, args),
         join |-> [table |-> "relation_table",
                   alias |-> "Relation::TABLE_ALIAS",
                   on |-> Equals(Column("id_column", "related_model"), opposite_column)]],
     order_by |-> args.order_by,
     is_reverse_order |-> args.last # 0]

QueryArguments ==
    [filter : {"None", "status = published"},
     after : 0..1,
     before : 0..1,
     last : 0..1,
     order_by : {"None", "createdAt ASC"}]

InitQuery ==
    /\ LifecycleIdle
    /\ TxIdle
    /\ DecodeIdle
    /\ \E n \in 0..MaxIds :
        \E ids \in [1..n -> 1..MaxIds] :
            \E args \in QueryArguments :
                qIn = [tag |-> "input", from_node_ids |-> ids, query_arguments |-> args]
    /\ qOut = [tag |-> "pending"]

build ==
    /\ qOut.tag = "pending"
    /\ qOut' = new(qIn.from_node_ids, qIn.query_arguments)
    /\ UNCHANGED <<qIn, lifecycleVars, txVars, decodeVars>>

NextQuery == build

SpecQuery == InitQuery /\ [][NextQuery]_vars

\* ===================================================================
\* The claims
\* ===================================================================
Returned(t) == pc[t] \in {"with_conn_return", "done"} /\ bodyResult[t] # "none"

\* C1, as stated: once the body has returned, the transaction is committed
\* if and only if the body returned success.
C1_CommittedIffBodyOk ==
    \A t \in Threads :
        Returned(t) => (tx[t] = "committed" <=> bodyResult[t] = "Ok")

\* C1, amended: commit is issued if and only if the body returned success,
\* and the transaction ends committed if and only if the body returned
\* success and that commit succeeded. After a failing body no commit is
\* issued, the transaction is not committed, and the call returns the
\* body's failure.
C1_CommitIssuedIffBodyOk ==
    \A t \in Threads :
        /\ commitIssued[t] => bodyResult[t] = "Ok"
        /\ tx[t] = "committed" => commitIssued[t]
        /\ Returned(t) =>
            /\ commitIssued[t] <=> bodyResult[t] = "Ok"
            /\ tx[t] = "committed" <=>
                    (bodyResult[t] = "Ok" /\ closureResult[t] = "Ok")
        /\ bodyResult[t] \in {"Err_query", "Err_body"} =>
            /\ ~commitIssued[t]
            /\ tx[t] # "committed"
            /\ pc[t] = "done" => result[t] = bodyResult[t]

C1_Witness ==
    \E t \in Threads :
        /\ pc[t] = "done"
        /\ written[t]
        /\ bodyResult[t] = "Err_body"
        /\ result[t] = "Err_body"
        /\ tx[t] = "rolled_back"
        /\ ~commitIssued[t]

\* C2: a thread that is not inside with_transaction holds no connection,
\* whatever the call returned; with every call completed no connection is
\* leased.
C2_ConnectionReleasedOnReturn ==
    /\ \A t \in Threads : pc[t] \in {"idle", "done"} => conn[t] = 0
    /\ (\A t \in Threads : pc[t] \in {"idle", "done"}) => Leased = {}

C2_Witness ==
    /\ \E t \in Threads : pc[t] = "done" /\ result[t] = "Err_commit"
    /\ \E t \in Threads : pc[t] = "done" /\ result[t] = "Err_start"
    /\ Leased = {}

\* C5: no two threads hold the same connection, the threads holding one are
\* at most PoolLimit, and a thread between start_transaction and the return
\* of with_conn (its body included) holds a connection.
C5_ExclusiveBoundedAdmission ==
    /\ \A t1, t2 \in Threads :
        (t1 # t2 /\ conn[t1] # 0) => conn[t1] # conn[t2]
    /\ Cardinality({t \in Threads : conn[t] # 0}) <= PoolLimit
    /\ \A t \in Threads :
        pc[t] \in {"start_transaction", "body", "check", "with_conn_return"}
            => conn[t] \in Conns
    /\ \A t \in Threads : tx[t] = "open" => conn[t] \in Conns

C5_Witness ==
    \E t1, t2 \in Threads :
        /\ t1 # t2
        /\ pc[t1] = "body"
        /\ conn[t1] # 0
        /\ pc[t2] = "get_conn"
        /\ Cardinality(Leased) = PoolLimit

\* C7, as stated: a body that called raw received the UnsupportedOperation
\* error as a value, so the call does not commit, releases its connection
\* and returns that error.
C7_RawFailsWithErrorValue ==
    \A t \in Threads :
        lastOp[t] = "raw" =>
            /\ bodyResult[t] = "Err_unsupported"
            /\ ~commitIssued[t]
            /\ pc[t] # "panicked"
            /\ pc[t] = "done" => (conn[t] = 0 /\ result[t] = "Err_unsupported")

SetOn == "SET FOREIGN_KEY_CHECKS=1"
SetOff == "SET FOREIGN_KEY_CHECKS=0"
EnableCount == Cardinality({i \in DOMAIN log : log[i].stmt = SetOn})

\* C3: when truncate has returned after disabling the checks, the enabling
\* statement was issued exactly once, and at no time more than once.
C3_EnableIssuedExactlyOnce ==
    op = "truncate" =>
        /\ EnableCount <= 1
        /\ (tpc = "done" /\ log[1].ok) => EnableCount = 1

\* a delete in the middle of the table list failed
C3_Witness ==
    /\ op = "truncate"
    /\ tpc = "done"
    /\ Len(tables) = 3
    /\ deleteErr = 3
    /\ EnableCount = 1

\* C4, as stated: when a delete failed, truncate returns that delete's
\* error, whatever the enabling statement answered.
C4_ReturnsDeleteError ==
    (op = "truncate" /\ tpc = "done" /\ deleteErr # 0) => tres = Err(deleteErr)

\* C6, as stated: for a statement that executed, write returns an
\* identifier if and only if the statement generated one.
C6_SomeIffGenerated ==
    \A i \in DOMAIN log :
        log[i].ok => (log[i].ret.tag = "OkSome" <=> log[i].id # 0)

\* C10: the log of truncate is the disable statement, then the deletes of
\* the first k tables in the order of the list, then at most one enable
\* statement; only the last delete issued may have failed, nothing follows a
\* failed disable, and a truncate that returns without a failure has
\* deleted every table.
C10_StatementOrder ==
    op = "truncate" =>
        LET n == Len(log)
            k == Cardinality({i \in DOMAIN log : log[i].stmt = "DELETE"})
        IN  /\ n >= 1
            /\ log[1].stmt = SetOff
            /\ ~log[1].ok => n = 1
            /\ k <= Len(tables)
            /\ n \in {k + 1, k + 2}
            /\ \A i \in 1..k :
                /\ log[i + 1].stmt = "DELETE"
                /\ log[i + 1].table = tables[i]
                /\ i < k => log[i + 1].ok
            /\ n = k + 2 =>
                /\ log[n].stmt = SetOn
                /\ tpc = "done"
                /\ k = Len(tables) \/ ~log[k + 1].ok
            /\ (k >= 1 /\ ~log[k + 1].ok) => tpc \in {"cleanup", "done"}
            /\ (tpc = "done" /\ log[1].ok) => n = k + 2
            /\ (tpc = "done" /\ \A i \in DOMAIN log : log[i].ok) => k = Len(tables)

C10_Witness ==
    /\ op = "truncate"
    /\ tpc = "done"
    /\ Len(tables) = 3
    /\ Len(log) = 5
    /\ tres = OkUnit

\* C8: a decoded row has one value per type identifier, the value at each
\* position is the conversion of the raw column at that position, a NULL
\* column is decoded to Null for every type identifier, and a row fails to
\* decode only for a column that is not NULL.
C8_NullTotalPositional ==
    dOut.tag # "pending" =>
        /\ dOut.tag = "Ok" =>
            /\ Len(dOut.values) = Len(dIdents)
            /\ \A i \in DOMAIN dIdents :
                /\ dRow[i] = "NULL" => dOut.values[i] = Null
                /\ dRow[i] # "NULL" => dOut.values[i].of # "NULL"
                /\ dIdents[i] \notin {"UUID", "GraphQLID", "Relation"} /\ dRow[i] # "NULL"
                        => dOut.values[i].variant = dIdents[i]
        /\ dOut.tag = "Err" => \E i \in DOMAIN dRow : dRow[i] = "Inconvertible"
        /\ (\A i \in DOMAIN dRow : dRow[i] = "NULL") =>
                dOut = [tag |-> "Ok", values |-> [i \in DOMAIN dIdents |-> Null]]

C8_Witness ==
    /\ dOut.tag = "Ok"
    /\ dIdents = <<"Int", "Json">>
    /\ dRow = <<"NULL", "NULL">>
    /\ dOut.values = <<Null, Null>>

RECURSIVE Conjuncts(_)
Conjuncts(c) ==
    IF c.op = "And" THEN Conjuncts(c.l) \o Conjuncts(c.r) ELSE <<c>>

\* C9: the WHERE clause of the built query is the conjunction of exactly
\* three conditions: the IN test of the join table's parent-side column
\* against the given identifiers, the filter's condition (no condition
\* without a filter) and the cursor condition.
C9_WhereIsConjunctionOfThree ==
    qOut.tag # "pending" =>
        LET cs == Conjuncts(qOut.query.conditions)
            args == qIn.query_arguments
        IN  /\ Len(cs) = 3
            /\ cs[1].op = "In"
            /\ cs[1].col = [name |-> "relation_column", table |-> "Relation::TABLE_ALIAS"]
            /\ cs[1].ids = qIn.from_node_ids
            /\ cs[2] = IF args.filter = "None"
                       THEN [op |-> "NoCondition"]
                       ELSE [op |-> "Filter", filter |-> args.filter]
            /\ cs[3] = IF args.after = 0 /\ args.before = 0
                       THEN [op |-> "NoCondition"]
                       ELSE [op |-> "Cursor", after |-> args.after, before |-> args.before]

C9_Witness ==
    /\ qOut.tag # "pending"
    /\ Len(qIn.from_node_ids) = 2
    /\ qIn.query_arguments.filter # "None"
    /\ qIn.query_arguments.after = 1
    /\ Len(Conjuncts(qOut.query.conditions)) = 3

====
